---- MODULE Spec2Model ----
(***************************************************************************)
(* ruma-client: the Client of src/src/lib.rs (homeserver URL, optional     *)
(* Session, generic request dispatcher, auth flows, sync stream).          *)
(*                                                                         *)
(* Strings are sequences of atoms: an atom is a run of ordinary characters *)
(* ("access_token", "b1"), one reserved character ("&", "=", "?", ":",     *)
(* "://") or one percent-escape ("%26", "%3D", "%25").                     *)
(***************************************************************************)
EXTENDS Integers, Sequences, FiniteSets, Bags, TLC

\* Option<T>: <<>> is None and <<x>> is Some(x).
NoneV == <<>>
Some(x) == <<x>>
IsSome(o) == o # <<>>
Unwrap(o) == o[1]

\* Result<T, E>.
Ok(v) == [ok |-> TRUE, value |-> v]
Err(e) == [ok |-> FALSE, err |-> e]

\* ------------------------------------------------------------- strings

\* Number of characters an atom stands for.  "LONGHOST" stands for a host
\* name longer than any URI the transport accepts.
MAX_LEN == 22

AtomLen(a) == IF a = "LONGHOST" THEN MAX_LEN + 1 ELSE 1

RECURSIVE StrLen(_)
StrLen(s) == IF s = <<>> THEN 0 ELSE AtomLen(Head(s)) + StrLen(Tail(s))

\* application/x-www-form-urlencoded byte serializer, one atom at a time.
EncodeAtom(a) ==
    CASE a = "&" -> "%26"
      [] a = "=" -> "%3D"
      [] a = "%" -> "%25"
      [] OTHER   -> a

DecodeAtom(a) ==
    CASE a = "%26" -> "&"
      [] a = "%3D" -> "="
      [] a = "%25" -> "%"
      [] OTHER     -> a

Encode(s) == [i \in 1..Len(s) |-> EncodeAtom(s[i])]
Decode(s) == [i \in 1..Len(s) |-> DecodeAtom(s[i])]

\* Index of the first occurrence of atom a in s, 0 when absent.
RECURSIVE IndexFrom(_, _, _)
IndexFrom(s, a, i) ==
    IF i > Len(s) THEN 0
    ELSE IF s[i] = a THEN i
    ELSE IndexFrom(s, a, i + 1)

IndexOf(s, a) == IndexFrom(s, a, 1)

\* s split at every atom a (the pieces, empty ones included).
RECURSIVE Split(_, _)
Split(s, a) ==
    LET i == IndexOf(s, a) IN
    IF i = 0 THEN <<s>>
    ELSE <<SubSeq(s, 1, i - 1)>> \o Split(SubSeq(s, i + 1, Len(s)), a)

\* form_urlencoded::parse of one "name=value" piece.
ParsePair(piece) ==
    LET i == IndexOf(piece, "=") IN
    IF i = 0 THEN [name |-> Decode(piece), value |-> <<>>]
    ELSE [name  |-> Decode(SubSeq(piece, 1, i - 1)),
          value |-> Decode(SubSeq(piece, i + 1, Len(piece)))]

\* form_urlencoded::parse: the (name, value) pairs of a query string;
\* empty pieces are skipped.
QueryPairs(q) ==
    IF q = NoneV THEN <<>>
    ELSE LET pieces == Split(Unwrap(q), "&")
             kept   == SelectSeq(pieces, LAMBDA p : p # <<>>)
         IN [i \in 1..Len(kept) |-> ParsePair(kept[i])]

\* The values of the query parameters called name, in order.
ParamValues(q, name) ==
    LET ps  == QueryPairs(q)
        hit == SelectSeq(ps, LAMBDA p : p.name = name)
    IN [i \in 1..Len(hit) |-> hit[i].value]

\* ------------------------------------------------------------- url::Url

\* A URL: scheme and host (atoms), port (Option of an atom), path (string)
\* and query (Option of a string).
MkUrl(scheme, host, port, path, query) ==
    [scheme |-> scheme, host |-> host, port |-> port, path |-> path, query |-> query]

\* Url::set_path: a URL with a host always has a path that starts with "/".
set_path(u, path) ==
    [u EXCEPT !.path = IF path = <<>> THEN <<"/">> ELSE path]

\* Url::set_query.
set_query(u, query) == [u EXCEPT !.query = query]

\* Url::query_pairs_mut().append_pair(name, value): the pair is appended
\* to the query that is there, after "&" when that query is not empty.
append_pair(u, name, value) ==
    LET old == IF u.query = NoneV THEN <<>> ELSE Unwrap(u.query)
        sep == IF old = <<>> THEN <<>> ELSE <<"&">>
    IN [u EXCEPT !.query = Some(old \o sep \o Encode(name) \o <<"=">> \o Encode(value))]

\* Url::as_ref / as_str: the serialization of the URL.
as_ref(u) ==
    <<u.scheme, "://", u.host>>
    \o (IF u.port = NoneV THEN <<>> ELSE <<":", Unwrap(u.port)>>)
    \o u.path
    \o (IF u.query = NoneV THEN <<>> ELSE <<"?">> \o Unwrap(u.query))

\* ------------------------------------------------------------- hyper::Uri

\* Uri::from_str: parses scheme "://" host [":" port] path ["?" query];
\* a string longer than MAX_LEN characters is rejected.
from_str(s) ==
    IF StrLen(s) > MAX_LEN \/ Len(s) < 3 \/ s[2] # "://" THEN Err("Uri")
    ELSE LET hasPort == Len(s) >= 5 /\ s[4] = ":"
             rest    == IF hasPort THEN SubSeq(s, 6, Len(s)) ELSE SubSeq(s, 4, Len(s))
             q       == IndexOf(rest, "?")
         IN Ok(MkUrl(s[1], s[3],
                     IF hasPort THEN Some(s[5]) ELSE NoneV,
                     IF q = 0 THEN rest ELSE SubSeq(rest, 1, q - 1),
                     IF q = 0 THEN NoneV ELSE Some(SubSeq(rest, q + 1, Len(rest)))))

\* ------------------------------------------------------------- endpoints

\* The endpoint descriptors E the dispatcher is instantiated with.  "authed"
\* and "open" stand for any endpoint of the catalogue that requires,
\* respectively does not require, authentication.
Endpoints == {"login", "register", "sync_events", "authed", "open"}

\* E::METADATA.requires_authentication.
requires_authentication(E) == E \in {"sync_events", "authed"}

\* The URI of every endpoint-generated HTTP request names a placeholder host.
EndpointUri(path, query) ==
    MkUrl("http", "invalid-host-please-change", NoneV, path, query)

\* One query parameter per field of the request that is present.
RECURSIVE FieldsQuery(_)
FieldsQuery(fields) ==
    IF fields = <<>> THEN <<>>
    ELSE LET f    == Head(fields)
             rest == FieldsQuery(Tail(fields))
         IN IF f.value = NoneV THEN rest
            ELSE <<f.name, "=">> \o Encode(Unwrap(f.value))
                 \o (IF rest = <<>> THEN <<>> ELSE <<"&">> \o rest)

\* The request values of the endpoints "authed" and "open": a request whose
\* serialization fails, or one that serializes to a path and a query.
GenericRequests ==
    { [serializable |-> FALSE, path |-> <<"/rooms">>, query |-> NoneV],
      [serializable |-> TRUE,  path |-> <<"/rooms">>, query |-> NoneV],
      [serializable |-> TRUE,  path |-> <<"/user", "/filter">>,
       query |-> Some(<<"limit", "=", "5", "&", "access_token", "=", "x">>)] }

\* <E as Endpoint>::Request::try_into(): the HTTP request of a typed request.
TryInto(E, req) ==
    IF ~req.serializable THEN Err("Serialize")
    ELSE CASE E = "login" ->
                Ok([uri |-> EndpointUri(<<"/login">>, NoneV)])
           [] E = "register" ->
                Ok([uri |-> EndpointUri(<<"/register">>,
                                        Some(FieldsQuery(<<[name |-> "kind", value |-> req.kind]>>)))])
           [] E = "sync_events" ->
                Ok([uri |-> EndpointUri(<<"/sync">>,
                        LET q == FieldsQuery(<<[name |-> "filter",       value |-> req.filter],
                                               [name |-> "since",        value |-> req.since],
                                               [name |-> "full_state",   value |-> req.full_state],
                                               [name |-> "set_presence", value |-> req.set_presence],
                                               [name |-> "timeout",      value |-> req.timeout]>>)
                        IN IF q = <<>> THEN NoneV ELSE Some(q))])
           [] OTHER ->
                Ok([uri |-> EndpointUri(req.path, req.query)])

\* The answers of the transport to one submitted request: a transport-level
\* failure, or an HTTP response with a status and a JSON body.
LoginBody(t, u, d) == [access_token |-> t, user_id |-> u, device_id |-> d]
SyncBody(b) == [next_batch |-> b]

Token1 == <<"T1">>
Token2 == <<"T", "&", "2">>

Answers ==
    { Err("Transport"),
      Ok([status |-> 403, body |-> [errcode |-> "M_FORBIDDEN"]]),
      Ok([status |-> 200, body |-> LoginBody(Token1, "@alice:matrix.org", "D1")]),
      Ok([status |-> 200, body |-> LoginBody(Token2, "@bob:hs.example", "D2")]),
      Ok([status |-> 200, body |-> SyncBody(<<"b1">>)]),
      Ok([status |-> 200, body |-> SyncBody(<<"b2">>)]) }

\* E::Response::future_from(hyper_response): the typed response, or the
\* endpoint's error on a bad status or a body that lacks a field.
future_from(E, http) ==
    LET need == CASE E \in {"login", "register"} -> {"access_token", "user_id", "device_id"}
                  [] E = "sync_events"           -> {"next_batch"}
                  [] OTHER                       -> {}
    IN IF http.status # 200 \/ ~(need \subseteq DOMAIN http.body) THEN Err("Decode")
       ELSE Ok([f \in need |-> http.body[f]])

\* ------------------------------------------------------------- state

\* The number of request futures the caller holds at one time.
MaxFutures == 1

VARIABLES
    homeserver_url, \* Client.homeserver_url
    session,        \* Client.session: Option<Session>
    futures,        \* the bag of futures returned by request<E> that the caller holds
    auth,           \* the auth flow that blocks the caller, if any
    stream,         \* the stream returned by sync, if the caller holds one
    stream2,        \* a second stream of the same Client, if the caller holds one
    returned        \* what the step just taken handed to the caller

vars == <<homeserver_url, session, futures, auth, stream, stream2, returned>>

\* The homeserver URLs a Client is constructed with.
HomeserverUrls ==
    { MkUrl("https", "matrix.org", NoneV, <<"/">>, NoneV),
      MkUrl("http", "hs.example", Some("8448"), <<"/base">>, Some(<<"k", "=", "v">>)),
      MkUrl("https", "LONGHOST", NoneV, <<"/">>, NoneV) }

\* ------------------------------------------------------------- Client::request

NoFuture == [pc |-> "none"]

\* The session the authentication step reads: the clone taken when request
\* was called.
AuthSession_live(f) == session

AuthSession(f) == f.session_opt

\* The URL of the homeserver with the path and the query of the
\* endpoint-generated request.
Rebase_endpoint_authority(url, uri) ==
    set_query(set_path([url EXCEPT !.scheme = uri.scheme, !.host = uri.host, !.port = uri.port],
                       uri.path), uri.query)

Rebase_path_only(url, uri) ==
    IF uri.query = NoneV THEN set_path(url, uri.path)
    ELSE set_query(set_path(url, uri.path), uri.query)

Rebase_join(url, uri) ==
    set_query(set_path(url, IF url.path = <<"/">> THEN uri.path ELSE url.path \o uri.path),
              uri.query)

Rebase(url, uri) == set_query(set_path(url, uri.path), uri.query)

\* request<E>(request) up to the future it returns: the session and the URL
\* are cloned and the request is converted; nothing else has run.
request(E, req) ==
    [pc            |-> "created",
     E             |-> E,
     request       |-> req,
     session_opt   |-> session,
     url           |-> homeserver_url,
     hyper_request |-> TryInto(E, req),
     uri           |-> NoneV,
     sent          |-> 0,
     stages        |-> <<"try_into">>,
     result        |-> NoneV]

Done(f, stages, result) ==
    [f EXCEPT !.pc = "done", !.stages = f.stages \o stages, !.result = Some(result)]

\* The authentication step on the rebased URL: an endpoint that requires
\* authentication gets the access token of the session appended to the
\* query, or fails when there is no session; any other endpoint keeps the
\* URL as it is.
Authenticate_skip(E, session_opt, url) ==
    IF requires_authentication(E) /\ session_opt # NoneV
    THEN Ok(append_pair(url, <<"access_token">>, Unwrap(session_opt).access_token))
    ELSE Ok(url)

Authenticate_always(E, session_opt, url) ==
    IF session_opt # NoneV
    THEN Ok(append_pair(url, <<"access_token">>, Unwrap(session_opt).access_token))
    ELSE IF requires_authentication(E) THEN Err("AuthenticationRequired") ELSE Ok(url)

Authenticate(E, session_opt, url) ==
    IF requires_authentication(E)
    THEN IF session_opt # NoneV
         THEN Ok(append_pair(url, <<"access_token">>, Unwrap(session_opt).access_token))
         ELSE Err("AuthenticationRequired")
    ELSE Ok(url)

Poll_auth_first(f) ==
    IF requires_authentication(f.E) /\ AuthSession(f) = NoneV
    THEN Done(f, <<"auth">>, Err("AuthenticationRequired"))
    ELSE IF ~f.hyper_request.ok THEN Done(f, <<>>, Err(f.hyper_request.err))
    ELSE LET url    == Rebase(f.url, f.hyper_request.value.uri)
             authed == Authenticate(f.E, AuthSession(f), url)
             uri    == from_str(as_ref(authed.value))
         IN IF ~uri.ok
            THEN Done([f EXCEPT !.url = authed.value],
                      <<"auth", "rebase", "uri">>, Err(uri.err))
            ELSE [f EXCEPT !.pc = "sent", !.url = authed.value,
                           !.uri = Some(uri.value), !.sent = f.sent + 1,
                           !.stages = f.stages \o <<"auth", "rebase", "uri", "transport">>]

\* The first poll of the future: the two synchronous closures.  It ends with
\* an error, or with the request submitted to the transport.
Poll(f) ==
    IF ~f.hyper_request.ok THEN Done(f, <<>>, Err(f.hyper_request.err))
    ELSE LET url    == Rebase(f.url, f.hyper_request.value.uri)
             authed == Authenticate(f.E, AuthSession(f), url)
         IN IF ~authed.ok
            THEN Done([f EXCEPT !.url = url], <<"rebase", "auth">>, Err(authed.err))
            ELSE LET uri == from_str(as_ref(authed.value))
                 IN IF ~uri.ok
                    THEN Done([f EXCEPT !.url = authed.value],
                              <<"rebase", "auth", "uri">>, Err(uri.err))
                    ELSE [f EXCEPT !.pc = "sent", !.url = authed.value,
                                   !.uri = Some(uri.value), !.sent = f.sent + 1,
                                   !.stages = f.stages \o <<"rebase", "auth", "uri", "transport">>]

Complete_retry(f, answer) ==
    IF ~answer.ok
    THEN Done([f EXCEPT !.sent = f.sent + 1], <<"transport">>, Err(answer.err))
    ELSE Done(f, <<"future_from">>, future_from(f.E, answer.value))

\* The poll that finds the transport's answer: a transport error, or the
\* response handed to the endpoint's conversion.
Complete(f, answer) ==
    IF ~answer.ok THEN Done(f, <<>>, Err(answer.err))
    ELSE Done(f, <<"future_from">>, future_from(f.E, answer.value))

\* ------------------------------------------------------------- request futures

NoAuth == [flow |-> "none"]
NoStream == [live |-> FALSE]

Idle == auth.flow = "none"

Replace(bag, f, g) == (bag (-) SetToBag({f})) (+) SetToBag({g})

\* A call of request<E>(req): the caller keeps the future it returns.
Request(E, req) ==
    /\ Idle
    /\ BagCardinality(futures) < MaxFutures
    /\ futures' = futures (+) SetToBag({request(E, req)})
    /\ returned' = NoneV
    /\ UNCHANGED <<homeserver_url, session, auth, stream, stream2>>

\* The executor polls a future for the first time.
PollFuture(f) ==
    /\ Idle
    /\ f.pc = "created"
    /\ futures' = Replace(futures, f, Poll(f))
    /\ returned' = NoneV
    /\ UNCHANGED <<homeserver_url, session, auth, stream, stream2>>

\* The transport answers the request of a future and the executor polls it.
FutureAnswer(f, answer) ==
    /\ Idle
    /\ f.pc = "sent"
    /\ futures' = Replace(futures, f, Complete(f, answer))
    /\ returned' = NoneV
    /\ UNCHANGED <<homeserver_url, session, auth, stream, stream2>>

\* The caller drops a future, completed or not.
DropFuture(f) ==
    /\ Idle
    /\ futures' = futures (-) SetToBag({f})
    /\ returned' = NoneV
    /\ UNCHANGED <<homeserver_url, session, auth, stream, stream2>>

\* ------------------------------------------------------------- auth flows

\* The Session built from the response of login or register.
SessionOf_swapped(response) ==
    [access_token |-> response.access_token,
     user_id      |-> response.device_id,
     device_id    |-> response.user_id]

SessionOf(response) ==
    [access_token |-> response.access_token,
     user_id      |-> response.user_id,
     device_id    |-> response.device_id]

\* self.session = block_on_all(fut)?: the session after the flow's future
\* has completed with result.
SessionAfter_cleared(old, result) ==
    IF result.ok THEN Some(SessionOf(result.value)) ELSE NoneV

SessionAfter(old, result) ==
    IF result.ok THEN Some(SessionOf(result.value)) ELSE old

\* What log_in, register_guest and register_user hand back (the result of
\* the flow's future), with the session the Client had when the flow was
\* called.
Return(flow, f, before) == [flow |-> flow, fut |-> f, before |-> before]

AuthCall_resets(flow, E, req) ==
    /\ Idle
    /\ ~stream.live
    /\ ~stream2.live
    /\ LET f == Poll(request(E, req))
       IN IF f.pc = "done"
          THEN /\ session' = SessionAfter(session, Unwrap(f.result))
               /\ returned' = Some(Return(flow, f, session))
               /\ auth' = auth
          ELSE /\ auth' = [flow |-> flow, fut |-> f]
               /\ returned' = NoneV
               /\ session' = NoneV
    /\ UNCHANGED <<homeserver_url, futures, stream, stream2>>

\* An auth flow is called: the future of the endpoint is built and driven
\* by block_on_all until it fails or waits for the transport.  The flow
\* borrows the Client mutably, so no stream of the Client is alive.
AuthCall(flow, E, req) ==
    /\ Idle
    /\ ~stream.live
    /\ ~stream2.live
    /\ LET f == Poll(request(E, req))
       IN IF f.pc = "done"
          THEN /\ session' = SessionAfter(session, Unwrap(f.result))
               /\ returned' = Some(Return(flow, f, session))
               /\ auth' = auth
          ELSE /\ auth' = [flow |-> flow, fut |-> f]
               /\ returned' = NoneV
               /\ session' = session
    /\ UNCHANGED <<homeserver_url, futures, stream, stream2>>

log_in(serializable) ==
    AuthCall("log_in", "login", [serializable |-> serializable])

register_guest(serializable) ==
    AuthCall("register_guest", "register",
             [serializable |-> serializable, kind |-> Some(<<"guest">>)])

register_user(serializable) ==
    AuthCall("register_user", "register",
             [serializable |-> serializable, kind |-> Some(<<"user">>)])

AuthAnswer_clears(answer) ==
    /\ ~Idle
    /\ LET f == Complete(auth.fut, answer)
       IN /\ session' = IF Unwrap(f.result).ok
                        THEN Some(SessionOf(Unwrap(f.result).value))
                        ELSE NoneV
          /\ returned' = Some(Return(auth.flow, f, session))
    /\ auth' = NoAuth
    /\ UNCHANGED <<homeserver_url, futures, stream, stream2>>

\* The transport answers the blocked flow: the response is converted, the
\* session is assigned on success, and the flow returns.
AuthAnswer(answer) ==
    /\ ~Idle
    /\ LET f == Complete(auth.fut, answer)
       IN /\ session' = SessionAfter(session, Unwrap(f.result))
          /\ returned' = Some(Return(auth.flow, f, session))
    /\ auth' = NoAuth
    /\ UNCHANGED <<homeserver_url, futures, stream, stream2>>

\* ------------------------------------------------------------- Client::sync

SyncArg(filter, since, set_presence) ==
    [filter |-> filter, since |-> since, set_presence |-> set_presence]

\* The arguments sync is called with.
SyncArgs ==
    { SyncArg(NoneV, NoneV, TRUE),
      SyncArg(NoneV, Some(<<"b0">>), FALSE),
      SyncArg(Some(<<"f1">>), Some(<<"b0">>), TRUE) }

sync_inverted(filter, since, set_presence) ==
    [live         |-> TRUE,
     args         |-> SyncArg(filter, since, set_presence),
     filter       |-> filter,
     set_presence |-> IF set_presence THEN Some(<<"offline">>) ELSE NoneV,
     initial      |-> since,
     state        |-> "Ready",
     since        |-> since,
     fut          |-> NoFuture,
     request      |-> NoneV,
     yielded      |-> NoneV]

\* sync(filter, since, set_presence): the stream, not yet pulled.
sync(filter, since, set_presence) ==
    [live         |-> TRUE,
     args         |-> SyncArg(filter, since, set_presence),  \* what sync was called with
     filter       |-> filter,
     set_presence |-> IF set_presence THEN NoneV ELSE Some(<<"offline">>),
     initial      |-> since,
     state        |-> "Ready",
     since        |-> since,
     fut          |-> NoFuture,      \* the future of the latest request
     request      |-> NoneV,         \* the latest request
     yielded      |-> NoneV]

SyncRequest_full(st, since) ==
    [serializable |-> TRUE,
     filter       |-> IF since = st.initial THEN st.filter ELSE NoneV,
     since        |-> since,
     full_state   |-> IF since = st.initial THEN NoneV ELSE Some(<<"true">>),
     set_presence |-> st.set_presence,
     timeout      |-> NoneV]

\* The request the closure of unfold builds from the cursor.
SyncRequest(st, since) ==
    [serializable |-> TRUE,
     filter       |-> st.filter,
     since        |-> since,
     full_state   |-> NoneV,
     set_presence |-> st.set_presence,
     timeout      |-> NoneV]

Item(res) == [kind |-> "Item", item |-> res]
Error(e) == [kind |-> "Err", err |-> e]
End == [kind |-> "End"]

Pull_ends(st) ==
    IF st.state = "Empty" \/ st.yielded # NoneV
    THEN [st EXCEPT !.state = "Empty", !.since = NoneV, !.yielded = Some(End)]
    ELSE LET req == SyncRequest(st, st.since)
             f   == Poll(request("sync_events", req))
         IN IF f.pc = "done"
            THEN [st EXCEPT !.state = "Empty", !.since = NoneV, !.request = Some(req),
                            !.fut = f, !.yielded = Some(Error(Unwrap(f.result).err))]
            ELSE [st EXCEPT !.state = "Processing", !.since = NoneV, !.request = Some(req),
                            !.fut = f]

\* Unfold::poll on a stream that holds no future: from Ready the closure
\* makes the next request and its future is polled; from Empty the stream
\* has ended.
Pull(st) ==
    IF st.state = "Empty" THEN [st EXCEPT !.yielded = Some(End)]
    ELSE LET req == SyncRequest(st, st.since)
             f   == Poll(request("sync_events", req))
         IN IF f.pc = "done"
            THEN [st EXCEPT !.state = "Empty", !.since = NoneV, !.request = Some(req),
                            !.fut = f, !.yielded = Some(Error(Unwrap(f.result).err))]
            ELSE [st EXCEPT !.state = "Processing", !.since = NoneV, !.request = Some(req),
                            !.fut = f]

PullAnswer_stale(st, answer) ==
    LET f == Complete(st.fut, answer)
        r == Unwrap(f.result)
    IN IF r.ok
       THEN [st EXCEPT !.state = "Ready", !.since = Unwrap(st.request).since,
                       !.fut = f, !.yielded = Some(Item(r.value))]
       ELSE [st EXCEPT !.state = "Empty", !.fut = f, !.yielded = Some(Error(r.err))]

PullAnswer_retry(st, answer) ==
    LET f == Complete(st.fut, answer)
        r == Unwrap(f.result)
    IN IF r.ok
       THEN [st EXCEPT !.state = "Ready", !.since = Some(r.value.next_batch),
                       !.fut = f, !.yielded = Some(Item(r.value))]
       ELSE [st EXCEPT !.state = "Ready", !.since = Unwrap(st.request).since,
                       !.fut = f, !.yielded = Some(Error(r.err))]

\* Unfold::poll on a stream whose future finds the transport's answer:
\* the item is yielded and its next_batch is the next cursor, or the error
\* is yielded and the stream keeps neither future nor cursor.
PullAnswer(st, answer) ==
    LET f == Complete(st.fut, answer)
        r == Unwrap(f.result)
    IN IF r.ok
       THEN [st EXCEPT !.state = "Ready", !.since = Some(r.value.next_batch),
                       !.fut = f, !.yielded = Some(Item(r.value))]
       ELSE [st EXCEPT !.state = "Empty", !.fut = f, !.yielded = Some(Error(r.err))]

Sync(args) ==
    /\ Idle
    /\ ~stream.live
    /\ stream' = sync(args.filter, args.since, args.set_presence)
    /\ returned' = NoneV
    /\ UNCHANGED <<homeserver_url, session, futures, auth, stream2>>

\* Unfold::poll, called by the consumer of the stream.
SyncPull_eager ==
    /\ Idle
    /\ stream.live
    /\ stream' = Pull(stream)
    /\ returned' = NoneV
    /\ UNCHANGED <<homeserver_url, session, futures, auth, stream2>>

SyncPull ==
    /\ Idle
    /\ stream.live
    /\ stream.state # "Processing"
    /\ stream' = Pull(stream)
    /\ returned' = NoneV
    /\ UNCHANGED <<homeserver_url, session, futures, auth, stream2>>

SyncAnswer(answer) ==
    /\ Idle
    /\ stream.live
    /\ stream.state = "Processing"
    /\ stream' = PullAnswer(stream, answer)
    /\ returned' = NoneV
    /\ UNCHANGED <<homeserver_url, session, futures, auth, stream2>>

DropStream ==
    /\ Idle
    /\ stream.live
    /\ stream' = NoStream
    /\ returned' = NoneV
    /\ UNCHANGED <<homeserver_url, session, futures, auth, stream2>>

\* ------------------------------------------------------------- specification

\* Client::new, new_https, new_custom: no session.
Init ==
    /\ homeserver_url \in HomeserverUrls
    /\ session = NoneV
    /\ futures = EmptyBag
    /\ auth = NoAuth
    /\ stream = NoStream
    /\ stream2 = NoStream
    /\ returned = NoneV

Next ==
    \/ \E E \in {"authed", "open"}, req \in GenericRequests : Request(E, req)
    \/ \E f \in BagToSet(futures) : PollFuture(f)
    \/ \E f \in BagToSet(futures), answer \in Answers : FutureAnswer(f, answer)
    \/ \E f \in BagToSet(futures) : DropFuture(f)
    \/ \E serializable \in BOOLEAN : log_in(serializable)
    \/ \E serializable \in BOOLEAN : register_guest(serializable)
    \/ \E serializable \in BOOLEAN : register_user(serializable)
    \/ \E answer \in Answers : AuthAnswer(answer)
    \/ \E args \in SyncArgs : Sync(args)
    \/ SyncPull
    \/ \E answer \in Answers : SyncAnswer(answer)
    \/ DropStream

Spec == Init /\ [][Next]_vars

\* ------------------------------------------------------------- two streams

\* sync called while the first stream is alive: both borrow the Client.
Sync2(args) ==
    /\ Idle
    /\ stream.live
    /\ ~stream2.live
    /\ stream2' = sync(args.filter, args.since, args.set_presence)
    /\ returned' = NoneV
    /\ UNCHANGED <<homeserver_url, session, futures, auth, stream>>


SyncPull2_shared ==
    /\ Idle
    /\ stream2.live
    /\ stream2.state # "Processing"
    /\ stream2' = Pull([stream2 EXCEPT !.since = IF stream.live /\ stream.state = "Ready"
                                                  THEN stream.since ELSE @])
    /\ returned' = NoneV
    /\ UNCHANGED <<homeserver_url, session, futures, auth, stream>>

SyncPull2 ==
    /\ Idle
    /\ stream2.live
    /\ stream2.state # "Processing"
    /\ stream2' = Pull(stream2)
    /\ returned' = NoneV
    /\ UNCHANGED <<homeserver_url, session, futures, auth, stream>>

SyncAnswer2(answer) ==
    /\ Idle
    /\ stream2.live
    /\ stream2.state = "Processing"
    /\ stream2' = PullAnswer(stream2, answer)
    /\ returned' = NoneV
    /\ UNCHANGED <<homeserver_url, session, futures, auth, stream>>

DropStream2 ==
    /\ Idle
    /\ stream2.live
    /\ stream2' = NoStream
    /\ returned' = NoneV
    /\ UNCHANGED <<homeserver_url, session, futures, auth, stream>>

\* A Client that logs in and is then read by two sync streams, pulled in
\* any interleaving.
NextStreams ==
    \/ \E serializable \in BOOLEAN : log_in(serializable)
    \/ \E answer \in Answers : AuthAnswer(answer)
    \/ \E args \in SyncArgs : Sync(args)
    \/ SyncPull
    \/ \E answer \in Answers : SyncAnswer(answer)
    \/ DropStream
    \/ \E args \in SyncArgs : Sync2(args)
    \/ SyncPull2
    \/ \E answer \in Answers : SyncAnswer2(answer)
    \/ DropStream2

SpecStreams == Init /\ [][NextStreams]_vars

\* ------------------------------------------------------------- observations

\* Every future of request<E> there is: those the caller holds, the one of
\* the blocked auth flow, the latest one of each stream and the one of the
\* auth flow that has just returned.
Observed ==
    BagToSet(futures)
    \cup (IF Idle THEN {} ELSE {auth.fut})
    \cup (IF stream.live /\ stream.fut.pc # "none" THEN {stream.fut} ELSE {})
    \cup (IF stream2.live /\ stream2.fut.pc # "none" THEN {stream2.fut} ELSE {})
    \cup (IF returned = NoneV THEN {} ELSE {Unwrap(returned).fut})

\* The futures that have been polled.
Dispatched == {f \in Observed : f.pc # "created"}

\* The values of the access_token parameters of a query.
TokensIn(query) == ParamValues(query, <<"access_token">>)

Failed(f, e) == f.pc = "done" /\ ~Unwrap(f.result).ok /\ Unwrap(f.result).err = e

\* ------------------------------------------------------------- claims

\* C1 (as stated): a dispatch to an endpoint that requires authentication,
\* called on a Client without session, fails with AuthenticationRequired and
\* submits nothing to the transport, whatever the request's conversion gave.
C1_AlwaysAuthenticationRequired ==
    \A f \in Dispatched :
        (requires_authentication(f.E) /\ f.session_opt = NoneV)
            => /\ Failed(f, "AuthenticationRequired")
               /\ f.sent = 0

\* C1 (amended): such a dispatch fails and submits nothing to the
\* transport; the error is AuthenticationRequired when the request's
\* conversion succeeded and the conversion's error when it failed.
C1_NoSessionNoTransport ==
    \A f \in Dispatched :
        (requires_authentication(f.E) /\ f.session_opt = NoneV)
            => /\ f.sent = 0
               /\ f.uri = NoneV
               /\ ~("transport" \in {f.stages[i] : i \in 1..Len(f.stages)})
               /\ IF f.hyper_request.ok
                  THEN Failed(f, "AuthenticationRequired")
                  ELSE Failed(f, f.hyper_request.err)

C1_Witness ==
    \E f \in Dispatched :
        /\ requires_authentication(f.E)
        /\ f.session_opt = NoneV
        /\ f.hyper_request.ok
        /\ Failed(f, "AuthenticationRequired")

\* C2: when an auth flow returns successfully the session is Some, with the
\* access_token, user_id and device_id of the decoded response of that
\* call, whatever the session was before.
C2_SessionFromResponse ==
    returned # NoneV =>
        LET r == Unwrap(Unwrap(returned).fut.result)
        IN r.ok =>
            /\ session # NoneV
            /\ Unwrap(session).access_token = r.value.access_token
            /\ Unwrap(session).user_id = r.value.user_id
            /\ Unwrap(session).device_id = r.value.device_id
            /\ DOMAIN Unwrap(session) = {"access_token", "user_id", "device_id"}

C2_Witness ==
    /\ returned # NoneV
    /\ Unwrap(Unwrap(returned).fut.result).ok
    /\ Unwrap(returned).before # NoneV
    /\ Unwrap(returned).before # session

\* C3: when an auth flow fails at any stage its error is what the caller
\* gets, and the session is the session of before the call.
C3_FailureKeepsSession ==
    returned # NoneV =>
        LET r == Unwrap(Unwrap(returned).fut.result)
        IN ~r.ok =>
            /\ r.err \in {"Serialize", "Uri", "Transport", "Decode"}
            /\ session = Unwrap(returned).before

C3_Witness ==
    /\ returned # NoneV
    /\ Failed(Unwrap(returned).fut, "Decode")
    /\ Unwrap(returned).before # NoneV
    /\ session = Unwrap(returned).before

\* C4: the URL an authenticated dispatch submits has exactly one
\* access_token parameter, the token of the session at the call, whatever
\* query the endpoint-generated request carries.
C4_ExactlyOneToken ==
    \A f \in Dispatched :
        (requires_authentication(f.E) /\ f.uri # NoneV)
            => TokensIn(Unwrap(f.uri).query) = <<Unwrap(f.session_opt).access_token>>

\* C5: the first request of a sync stream carries the initial cursor, and
\* every later request carries the next_batch of the response the pull
\* before it yielded.
C5_CursorThreading ==
    [][ (stream.live /\ stream.state = "Ready" /\ stream'.live /\ stream' # stream)
          => /\ stream'.request # NoneV
             /\ Unwrap(stream'.request).since =
                    IF stream.yielded = NoneV
                    THEN stream.initial
                    ELSE Some(Unwrap(stream.yielded).item.next_batch)
             /\ stream'.fut.request = Unwrap(stream'.request) ]_vars

C5_Witness ==
    /\ stream.live
    /\ stream.state = "Processing"
    /\ stream.yielded # NoneV
    /\ Unwrap(stream.yielded).kind = "Item"
    /\ Unwrap(stream.request).since = Some(Unwrap(stream.yielded).item.next_batch)
    /\ Unwrap(stream.request).since # stream.initial

\* C6 (as stated): after a pull of the sync stream has failed, a following
\* pull issues a new sync request with the since of the failed request;
\* the stream has not ended.
C6_ErrorKeepsStreamGoing ==
    [][ (/\ stream.live
         /\ stream.yielded # NoneV
         /\ Unwrap(stream.yielded).kind = "Err"
         /\ stream'.live
         /\ stream' # stream)
          => /\ Unwrap(stream'.yielded).kind # "End"
             /\ stream'.request = stream.request ]_vars

\* C6 (amended): a failed pull yields its error and takes no cursor from
\* it; the stream is then left without cursor and without future, so every
\* following pull signals the end of the stream and issues no request.
C6_ErrorEndsStream ==
    [][ (/\ stream.live
         /\ stream.yielded # NoneV
         /\ Unwrap(stream.yielded).kind \in {"Err", "End"})
          => /\ stream.state = "Empty"
             /\ stream.since = NoneV
             /\ ~Unwrap(stream.fut.result).ok
             /\ (stream'.live /\ stream' # stream)
                    => /\ Unwrap(stream'.yielded).kind = "End"
                       /\ stream'.state = "Empty"
                       /\ stream'.request = stream.request
                       /\ stream'.fut = stream.fut ]_vars

C6_Witness ==
    /\ stream.live
    /\ stream.yielded # NoneV
    /\ Unwrap(stream.yielded).kind = "End"
    /\ Failed(stream.fut, "Transport")

\* Every URL submitted to the transport has the scheme, the host and the
\* port of the homeserver URL.
SubmittedToHomeserver ==
    \A f \in Dispatched :
        f.uri # NoneV =>
            /\ Unwrap(f.uri).scheme = homeserver_url.scheme
            /\ Unwrap(f.uri).host = homeserver_url.host
            /\ Unwrap(f.uri).port = homeserver_url.port

\* C7: the scheme, host and port of every URL submitted to the transport
\* are those of the homeserver URL, whatever URI the endpoint generated,
\* and no step changes the homeserver URL.
C7_HomeserverAuthority ==
    [][ homeserver_url' = homeserver_url /\ SubmittedToHomeserver' ]_vars

C7_Witness ==
    \E f \in Dispatched :
        /\ f.uri # NoneV
        /\ f.hyper_request.value.uri.host # homeserver_url.host
        /\ f.hyper_request.value.uri.port # homeserver_url.port
        /\ Unwrap(f.uri).host = homeserver_url.host
        /\ Unwrap(f.uri).port = Some("8448")

\* C8: a dispatch to an endpoint that does not require authentication is
\* never refused for want of a session (it reaches the transport unless
\* the conversion or the URI construction fails), and the URL it submits
\* has the access_token parameters of the endpoint-generated query and no
\* other, session or no session.
C8_OpenEndpoint ==
    \A f \in Dispatched :
        ~requires_authentication(f.E) =>
            /\ ~Failed(f, "AuthenticationRequired")
            /\ (f.sent = 1 /\ f.uri # NoneV)
                   <=> (f.hyper_request.ok /\ ~Failed(f, "Uri"))
            /\ f.uri # NoneV =>
                   /\ TokensIn(Unwrap(f.uri).query)
                          = TokensIn(f.hyper_request.value.uri.query)
                   /\ Unwrap(f.uri).query = f.hyper_request.value.uri.query

C8_Witness ==
    \E f \in Dispatched :
        /\ ~requires_authentication(f.E)
        /\ f.session_opt # NoneV
        /\ f.sent = 1
        /\ TokensIn(Unwrap(f.uri).query) = <<>>

\* C9: a dispatch authenticates with the session the Client had when
\* request was called: the token it appends is that session's, and it
\* fails with AuthenticationRequired when there was none, also when an
\* auth flow has replaced the session since.
C9_SessionSnapshot ==
    \A f \in Dispatched :
        (requires_authentication(f.E) /\ f.hyper_request.ok) =>
            IF f.session_opt = NoneV
            THEN Failed(f, "AuthenticationRequired")
            ELSE LET appended == Unwrap(f.url.query)
                     token    == Encode(Unwrap(f.session_opt).access_token)
                 IN /\ Len(appended) >= Len(token) + 2
                    /\ SubSeq(appended, Len(appended) - Len(token) - 1, Len(appended))
                           = <<"access_token", "=">> \o token

C9_Witness ==
    \E f \in BagToSet(futures) :
        /\ requires_authentication(f.E)
        /\ f.pc = "sent"
        /\ session # NoneV
        /\ f.session_opt # NoneV
        /\ f.session_opt # session
        /\ TokensIn(Unwrap(f.uri).query) = <<Unwrap(f.session_opt).access_token>>

\* C10: the session changes only in the step in which an auth flow returns
\* successfully, after the response of its own request has been converted;
\* steps of request futures and of the sync stream leave it alone.
C10_OnlyAuthFlowsWrite ==
    [][ session' # session =>
            /\ returned' # NoneV
            /\ Unwrap(Unwrap(returned').fut.result).ok
            /\ Unwrap(returned').fut.stages[Len(Unwrap(returned').fut.stages)] = "future_from"
            /\ futures' = futures
            /\ stream' = stream ]_vars

C10_Witness ==
    /\ session = NoneV
    /\ \E f \in BagToSet(futures) : f.pc = "done" /\ Unwrap(f.result).ok
    /\ stream.live
    /\ stream.yielded # NoneV

\* C11: a sync stream has at most one request in flight: a request is
\* submitted to the transport only by a pull on a stream that holds no
\* pending future, after the response of the request before it (if there
\* was one) has been yielded to the consumer.
C11_OneRequestInFlight ==
    [][ /\ stream.live => (stream.state = "Processing" <=> stream.fut.pc = "sent")
        /\ (stream.live /\ stream'.live /\ stream'.fut # stream.fut /\ stream'.fut.pc = "sent")
              => /\ stream.state = "Ready"
                 /\ \/ stream.fut.pc = "none" /\ stream.yielded = NoneV
                    \/ /\ stream.fut.pc = "done"
                       /\ Unwrap(stream.fut.result).ok
                       /\ stream.yielded = Some(Item(Unwrap(stream.fut.result).value)) ]_vars

C11_Witness ==
    /\ stream.live
    /\ stream.state = "Processing"
    /\ stream.fut.pc = "sent"
    /\ stream.fut.sent = 1
    /\ stream.yielded # NoneV
    /\ Unwrap(stream.yielded).kind = "Item"

\* C12: every request of a stream from sync(filter, since, set_presence),
\* the first and every later one, carries no presence when set_presence is
\* true and the presence "offline" when it is false; so does the URL
\* submitted for it.
C12_Presence ==
    (stream.live /\ stream.request # NoneV) =>
        LET expected == IF stream.args.set_presence THEN NoneV ELSE Some(<<"offline">>)
        IN /\ Unwrap(stream.request).set_presence = expected
           /\ stream.fut.request = Unwrap(stream.request)
           /\ stream.fut.uri # NoneV =>
                  ParamValues(Unwrap(stream.fut.uri).query, <<"set_presence">>)
                      = IF expected = NoneV THEN <<>> ELSE <<Unwrap(expected)>>

C12_Witness ==
    /\ stream.live
    /\ ~stream.args.set_presence
    /\ stream.state = "Processing"
    /\ stream.yielded # NoneV
    /\ ParamValues(Unwrap(stream.fut.uri).query, <<"set_presence">>) = <<<<"offline">>>>

\* C13 (as stated): every call of request, once completed, has submitted
\* exactly one HTTP request to the transport.
C13_ExactlyOneSubmission ==
    \A f \in Dispatched : f.pc = "done" => f.sent = 1

\* C13 (amended): no call of request submits more than one HTTP request:
\* a call whose conversion, authentication check and URI construction
\* succeed submits exactly one, also when the transport or the response
\* conversion then fails; a call that fails before the transport submits
\* none.
C13_NoRetry ==
    \A f \in Dispatched :
        LET submissions == Cardinality({i \in 1..Len(f.stages) : f.stages[i] = "transport"})
        IN /\ f.sent <= 1
           /\ submissions = f.sent
           /\ (Failed(f, "Transport") \/ Failed(f, "Decode")) => f.sent = 1
           /\ (f.pc = "done" /\ Unwrap(f.result).ok) => f.sent = 1
           /\ (Failed(f, "Serialize") \/ Failed(f, "AuthenticationRequired") \/ Failed(f, "Uri"))
                  => f.sent = 0

C13_Witness ==
    \E f \in BagToSet(futures) :
        /\ Failed(f, "Transport")
        /\ f.sent = 1

\* The stages of a dispatch in the order of the code, and the stage at which
\* each error arises.
StageOrder == <<"try_into", "rebase", "auth", "uri", "transport", "future_from">>

StageOf(e) ==
    CASE e = "Serialize"              -> 1
      [] e = "AuthenticationRequired" -> 3
      [] e = "Uri"                    -> 4
      [] e = "Transport"              -> 5
      [] e = "Decode"                 -> 6

\* C14: the stages of a dispatch run in the order conversion, rebasing,
\* authentication check, URI construction, transport, response conversion;
\* the error returned is that of the first stage that fails and no later
\* stage runs: a conversion failure is returned before any authentication
\* check, and the response conversion does not run when the transport fails.
C14_StagesInOrder ==
    \A f \in Dispatched :
        /\ Len(f.stages) <= Len(StageOrder)
        /\ f.stages = SubSeq(StageOrder, 1, Len(f.stages))
        /\ ~f.hyper_request.ok => (Failed(f, f.hyper_request.err) /\ f.stages = <<"try_into">>)
        /\ f.pc = "done" =>
              IF Unwrap(f.result).ok
              THEN f.stages = StageOrder
              ELSE Len(f.stages) = StageOf(Unwrap(f.result).err)
        /\ f.pc = "sent" => Len(f.stages) = 5

C14_Witness ==
    \E f \in Dispatched :
        /\ Failed(f, "Transport")
        /\ f.stages = <<"try_into", "rebase", "auth", "uri", "transport">>
        /\ requires_authentication(f.E)

\* s starts with p.
StartsWith(s, p) == Len(s) >= Len(p) /\ SubSeq(s, 1, Len(p)) = p

\* C15 (as stated): when the homeserver URL has a base path, the path of
\* every URL submitted to the transport still starts with that base path.
C15_BasePathKept ==
    \A f \in Dispatched :
        (f.uri # NoneV /\ homeserver_url.path # <<"/">>)
            => StartsWith(Unwrap(f.uri).path, homeserver_url.path)

\* C15 (amended): the base path of the homeserver URL does not survive the
\* rebasing: the path of every URL submitted to the transport is the path
\* of the endpoint-generated request, with no base path before it.
C15_BasePathDropped ==
    \A f \in Dispatched :
        f.uri # NoneV =>
            /\ Unwrap(f.uri).path = f.hyper_request.value.uri.path
            /\ homeserver_url.path # <<"/">>
                   => ~StartsWith(Unwrap(f.uri).path, homeserver_url.path)

C15_Witness ==
    \E f \in Dispatched :
        /\ f.uri # NoneV
        /\ homeserver_url.path = <<"/base">>
        /\ f.url.path = <<"/rooms">>
        /\ Unwrap(f.uri).path = <<"/rooms">>

\* C16: the path of every URL submitted to the transport is the path of
\* the endpoint-generated request, and its query parameters are those of
\* the endpoint-generated query, followed by access_token with the token of
\* the session for an endpoint that requires authentication; nothing of the
\* path or query of the homeserver URL is left.
C16_PathAndQueryOverwritten ==
    \A f \in Dispatched :
        f.uri # NoneV =>
            LET generated == f.hyper_request.value.uri
                token     == [name  |-> <<"access_token">>,
                              value |-> Unwrap(f.session_opt).access_token]
            IN /\ Unwrap(f.uri).path = generated.path
               /\ QueryPairs(Unwrap(f.uri).query)
                      = QueryPairs(generated.query)
                        \o (IF requires_authentication(f.E) THEN <<token>> ELSE <<>>)
               /\ (generated.query = NoneV /\ ~requires_authentication(f.E))
                      => Unwrap(f.uri).query = NoneV

C16_Witness ==
    \E f \in Dispatched :
        /\ f.uri # NoneV
        /\ homeserver_url.query = Some(<<"k", "=", "v">>)
        /\ requires_authentication(f.E)
        /\ f.hyper_request.value.uri.query = NoneV
        /\ QueryPairs(Unwrap(f.uri).query)
               = <<[name |-> <<"access_token">>, value |-> Unwrap(f.session_opt).access_token]>>

\* C17: sync issues no request itself; a pull on a stream that has yielded
\* only items so far (or nothing yet) issues exactly one sync request and
\* does not signal the end of the stream, however many items came before;
\* the end is signalled only after a pull has failed.
C17_LazyAndUnending ==
    [][ /\ (~stream.live /\ stream'.live)
              => /\ stream'.request = NoneV
                 /\ stream'.fut.pc = "none"
                 /\ stream'.yielded = NoneV
                 /\ stream'.state = "Ready"
        /\ (stream.live /\ stream.state = "Ready" /\ stream'.live /\ stream' # stream)
              => /\ stream'.state \in {"Processing", "Empty"}
                 /\ stream'.request # NoneV
                 /\ stream'.fut.pc \in {"sent", "done"}
                 /\ stream'.fut.sent = (IF stream'.state = "Processing" THEN 1 ELSE 0)
                 /\ stream'.yielded # NoneV => Unwrap(stream'.yielded).kind # "End"
        /\ (stream.live /\ stream.yielded # NoneV /\ Unwrap(stream.yielded).kind = "Item")
              => stream.state \in {"Ready", "Processing"}
        /\ (stream.live /\ stream.yielded = NoneV)
              => stream.state \in {"Ready", "Processing"}
        /\ (stream'.live /\ stream'.yielded # NoneV /\ Unwrap(stream'.yielded).kind = "End")
              => /\ stream.live
                 /\ stream.yielded # NoneV
                 /\ Unwrap(stream.yielded).kind \in {"Err", "End"} ]_vars

C17_Witness ==
    /\ stream.live
    /\ stream.state = "Ready"
    /\ stream.yielded # NoneV
    /\ Unwrap(stream.yielded).kind = "Item"
    /\ Unwrap(stream.request).since \notin {NoneV, stream.initial}

\* C18: every request of a stream carries the filter sync was called with,
\* unchanged, and neither timeout nor full_state, in the request value and in
\* the query submitted to the transport; since is the only field that is not
\* fixed by the arguments of sync, and the query carries the request's since.
C18_OnlySinceChanges ==
    (stream.live /\ stream.request # NoneV) =>
        LET r == Unwrap(stream.request)
            Sent(name, v) ==
                stream.fut.uri # NoneV =>
                    ParamValues(Unwrap(stream.fut.uri).query, name)
                        = IF v = NoneV THEN <<>> ELSE <<Unwrap(v)>>
        IN /\ r.filter = stream.args.filter
           /\ r.full_state = NoneV
           /\ r.timeout = NoneV
           /\ stream.fut.request = r
           /\ Sent(<<"filter">>, stream.args.filter)
           /\ Sent(<<"full_state">>, NoneV)
           /\ Sent(<<"timeout">>, NoneV)
           /\ Sent(<<"since">>, r.since)

C18_Witness ==
    /\ stream.live
    /\ stream.args.filter = Some(<<"f1">>)
    /\ stream.state = "Processing"
    /\ stream.yielded # NoneV
    /\ Unwrap(stream.request).since # stream.initial
    /\ ParamValues(Unwrap(stream.fut.uri).query, <<"filter">>) = <<<<"f1">>>>

\* C19: the session is None at construction, and no step of log_in,
\* register_guest, register_user, request or sync, successful or failed,
\* takes it from Some back to None.
C19_SessionNeverCleared ==
    /\ session = NoneV
    /\ [][session # NoneV => session' # NoneV]_vars

C19_Witness ==
    /\ returned # NoneV
    /\ Unwrap(returned).flow = "register_user"
    /\ Failed(Unwrap(returned).fut, "Transport")
    /\ Unwrap(returned).before # NoneV
    /\ session # NoneV
    /\ futures # EmptyBag

\* A pull that takes the stream from s to t issues a request whose since is
\* the next_batch of the item s yielded last, or the cursor sync was called
\* with when s has yielded nothing.
Threaded(s, t) ==
    (s.live /\ s.state = "Ready" /\ t.live /\ t # s)
        => /\ t.request # NoneV
           /\ Unwrap(t.request).since =
                  IF s.yielded = NoneV
                  THEN s.initial
                  ELSE Some(Unwrap(s.yielded).item.next_batch)
           /\ t.fut.request = Unwrap(t.request)

\* C20: with two sync streams over one Client pulled in any interleaving,
\* the since of each stream's request is the next_batch of that stream's own
\* previous response, or its own initial cursor; a step of one stream leaves
\* the other stream as it was.
C20_CursorPerStream ==
    [][ /\ Threaded(stream, stream')
        /\ Threaded(stream2, stream2')
        /\ (stream.live /\ stream'.live /\ stream' # stream) => stream2' = stream2
        /\ (stream2.live /\ stream2'.live /\ stream2' # stream2) => stream' = stream ]_vars

C20_Witness ==
    /\ stream.live
    /\ stream2.live
    /\ stream.state = "Processing"
    /\ stream2.state = "Processing"
    /\ stream.yielded # NoneV
    /\ stream2.yielded # NoneV
    /\ Unwrap(stream.request).since = Some(<<"b1">>)
    /\ Unwrap(stream2.request).since = Some(<<"b2">>)
    /\ stream.initial # stream2.initial

====
